---- MODULE Spec2Model ----
(***************************************************************************)
(* State-machine model of the ARM64 GICv3 ports:                           *)
(*   xen-ports/arm-vgic.c   virtual GICv3 (pending/active engine, register *)
(*                          emulation)                                     *)
(*   xen-ports/arm64-irq.c  IRQ descriptor table, routing, binding         *)
(* Bitmaps are kept as arrays of words, a word being the set of its set    *)
(* bit positions, so that set_bit/clear_bit/test_bit index words and bits  *)
(* the way the C code does.                                                *)
(***************************************************************************)
EXTENDS Integers, Sequences, FiniteSets, TLC

(* ------------------------------ bounds --------------------------------- *)

\* Number of guest domains.
NumDomains == 2
\* Number of vCPUs per domain (d->vcpu[0 .. NumVcpus-1]).
NumVcpus == 2
\* Number of physical CPUs (values of v->processor and smp_processor_id()).
NumCpus == 2
\* Number of physical CPUs of the larger machine SGIs are routed on.
NumSgiCpus == 9
\* Number of interrupt numbers, taken from IrqSample, the vgic is called with.
NumIrqs == 2
\* Number of interrupt numbers, taken from IrqSample, that descriptor-table
\* calls (route, bind, do_IRQ) are made with.
NumDescIrqs == 3
\* Number of host interrupt contexts that may run vgic_inject_irq concurrently.
NumInjectors == 2
NumDeltas == 3

(* --------------------------- program constants ------------------------- *)

\* if (virq >= 1024); BITS_TO_LONGS(1024)
VGIC_NR_IRQS == 1024
\* unsigned long on arm64
BITS_PER_LONG == 64
\* for (i = 0; i < 32; i++): SGIs and PPIs get descriptors at irq_init
NR_LOW_IRQS == 32
\* desc->is_gic_sgi = (i < 16)
NR_SGIS == 16
\* return -EINVAL
EINVAL == 22
\* Distributor window and the two emulated offsets
GICD_BASE == 134217728
GICD_SIZE == 65536
GICD_CTLR == 0
GICD_TYPER == 4
CNTP_CTL_ENABLE == 1
CNTP_CTL_IMASK == 2
CNTP_CTL_ISTATUS == 4
ENODEV == 19
timer_irq == 30
NS_PER_SEC == 1000000000

NA == 0 - 1

Domains == 1 .. NumDomains
Vcpus == 0 .. (NumVcpus - 1)
CPUs == 0 .. (NumCpus - 1)
SgiCPUs == 0 .. (NumSgiCpus - 1)
Injectors == 1 .. NumInjectors
\* The domain whose virtual controller receives the calls. Every vgic function
\* reads and writes only the controller of the domain it is given, so the
\* interrupt engine is run on one domain while the controllers of the others
\* stay in the model to show they are left alone.
VgicDomains == {1}

\* Interrupt numbers calls are made with: a shared (SPI), a software-generated
\* (SGI) and a private (PPI) one first, then the last valid one and others.
IrqSample == <<40, 5, 20, 1023, 100, 7, 50, 31, 64>>
Irqs == {IrqSample[i] : i \in 1 .. NumIrqs}
DescIrqs == {IrqSample[i] : i \in 1 .. NumDescIrqs}
\* Interrupt numbers outside [0,1024): the first one past the bitmaps, and one
\* whose pending-bitmap index falls on an active-bitmap word.
BadIrqs == {VGIC_NR_IRQS, VGIC_NR_IRQS + 40}

WordIdx == 0 .. ((VGIC_NR_IRQS \div BITS_PER_LONG) - 1)

VARIABLES
    vgic,             \* [Domains -> struct vgic_v3]: d->arch.vgic
    oob,              \* a bit operation went outside the bitmap arrays
    inj,              \* [Injectors -> position of a running vgic_inject_irq]
    irq_descs,        \* the radix tree: irq number -> struct irq_desc
    cpu_online_mask,  \* the global mask every desc->affinity points to
    irq_state,        \* "boot" | "ready" | "panic": irq_init not run / run / panicked
    last,             \* the most recent call: arguments, result, external calls
    owner,            \* history: irq -> domain of its standing successful bind, 0 if none
    destroyed,        \* history: <<domain, irq>> bindings that were torn down
    bind_tried,       \* history: irqs bind_irq_to_guest has been called for
    routed,           \* history: irq -> <<domain, vcpu_id>> of its latest successful route
    asserted,         \* history: per domain, irqs injected and not acknowledged since
    cycle,            \* history: per (domain, irq), progress of inject;ack;eoi
    hpet_enabled,     \* arm-hpet.c: static bool hpet_enabled
    timer_freq,       \* arm-hpet.c: static uint64_t timer_freq
    cntp_ctl,         \* the value of the timer control register CNTP_CTL
    cntp_tval         \* the timer value register

vgicVars == <<vgic, oob>>
irqVars == <<irq_descs, cpu_online_mask, irq_state>>
bindVars == <<owner, destroyed, bind_tried, routed>>
histVars == <<owner, destroyed, bind_tried, routed, asserted, cycle>>
hpetVars == <<hpet_enabled, timer_freq, cntp_ctl, cntp_tval>>
vars == <<vgic, oob, inj, irq_descs, cpu_online_mask, irq_state, last,
          owner, destroyed, bind_tried, routed, asserted, cycle,
          hpet_enabled, timer_freq, cntp_ctl, cntp_tval>>

(* ------------------------------ bit operations ------------------------- *)

EmptyBitmap == [w \in WordIdx |-> {}]

InBitmap(nr) == nr >= 0 /\ nr < VGIC_NR_IRQS

\* set_bit(nr, addr): addr[nr / BITS_PER_LONG] |= 1UL << (nr % BITS_PER_LONG), atomically
set_bit(nr, map) ==
    [map EXCEPT ![nr \div BITS_PER_LONG] = @ \cup {nr % BITS_PER_LONG}]

\* clear_bit(nr, addr): addr[nr / BITS_PER_LONG] &= ~(1UL << (nr % BITS_PER_LONG)), atomically
clear_bit(nr, map) ==
    [map EXCEPT ![nr \div BITS_PER_LONG] = @ \ {nr % BITS_PER_LONG}]

\* test_bit(nr, addr)
test_bit(nr, map) == (nr % BITS_PER_LONG) \in map[nr \div BITS_PER_LONG]

\* The interrupt numbers whose bit is set in a bitmap.
BitmapSet(map) == UNION {{w * BITS_PER_LONG + b : b \in map[w]} : w \in WordIdx}

(* ------------------------------ arm-vgic.c ----------------------------- *)

\* A uint32_t array is kept as the function of its non-zero words: xzalloc
\* zero-fills, so a freshly allocated array is the empty function.
ZeroWords == <<>>
Word(arr, n) == IF n \in DOMAIN arr THEN arr[n] ELSE 0

\* vgic_v3_init: xzalloc, gicd_ctlr = 0, gicd_typer = 1023 << 5
vgic_v3_init ==
    [gicd_ctlr |-> 0,
     gicd_typer |-> 1023 * 32,
     gicd_isenabler |-> ZeroWords,
     gicd_icenabler |-> ZeroWords,
     gicd_ipriorityr |-> ZeroWords,
     gicr_ctlr |-> 0,
     gicr_waker |-> 0,
     pending_irqs |-> EmptyBitmap,
     active_irqs |-> EmptyBitmap]

PendingSet(d) == BitmapSet(vgic[d].pending_irqs)
ActiveSet(d) == BitmapSet(vgic[d].active_irqs)

\* The external delivery step vgic_vcpu_inject_irq(v, virq), as a logged call.
Deliver(d, vcpu, virq) == <<"vgic_vcpu_inject_irq", d, vcpu, virq>>

\* Record of a call; fields a call does not use keep these values.
NoCall ==
    [op |-> "none", d |-> NA, vcpu |-> NA, irq |-> NA, cpu |-> NA,
     addr |-> NA, val |-> NA, ret |-> 0, calls |-> <<>>, sgi |-> {},
     was_pending |-> FALSE, was_active |-> FALSE, prev_owner |-> 0]

\* vgic_inject_irq with the interrupt number wrapped instead of range-checked
vgic_inject_irq_wrap(vg, virq) ==
    [vg EXCEPT !.pending_irqs = set_bit(virq % VGIC_NR_IRQS, @)]

\* vgic_inject_irq with the pending bit toggled instead of set
vgic_inject_irq_toggle(vg, virq) ==
    IF virq >= VGIC_NR_IRQS THEN vg
    ELSE IF test_bit(virq, vg.pending_irqs)
         THEN [vg EXCEPT !.pending_irqs = clear_bit(virq, @)]
         ELSE [vg EXCEPT !.pending_irqs = set_bit(virq, @)]

\* vgic_inject_irq, lines 55-59: the range check and the pending bit
vgic_inject_irq(vg, virq) ==
    IF virq >= VGIC_NR_IRQS THEN vg
    ELSE [vg EXCEPT !.pending_irqs = set_bit(virq, @)]

\* vgic_inject_irq, line 62: the delivery call, always to d->vcpu[0]
vgic_inject_calls(d, virq) ==
    IF virq >= VGIC_NR_IRQS THEN <<>> ELSE <<Deliver(d, 0, virq)>>

\* vgic_eoi_irq that leaves the active bit set
vgic_eoi_irq_keep_active(vg, virq) == vg

\* vgic_eoi_irq that drops the pending bit together with the active bit
vgic_eoi_irq_drop_pending(vg, virq) ==
    [vg EXCEPT !.active_irqs = clear_bit(virq, @),
               !.pending_irqs = clear_bit(virq, @)]

\* vgic_eoi_irq, line 71, for virq inside the bitmaps: clear the active bit
vgic_eoi_irq(vg, virq) ==
    [vg EXCEPT !.active_irqs = clear_bit(virq, @)]

\* vgic_eoi_irq, lines 74-75: re-sample the pending bit, deliver to v
vgic_eoi_calls(vg, d, vcpu, virq) ==
    IF test_bit(virq, vg.pending_irqs) THEN <<Deliver(d, vcpu, virq)>> ELSE <<>>

\* vgic_read_reg
vgic_read_reg(vg, addr) ==
    IF addr >= GICD_BASE /\ addr < GICD_BASE + GICD_SIZE
    THEN CASE addr - GICD_BASE = GICD_CTLR -> vg.gicd_ctlr
           [] addr - GICD_BASE = GICD_TYPER -> vg.gicd_typer
           [] OTHER -> 0
    ELSE 0

\* vgic_write_reg whose gicd_ctlr write also drops what is pending
vgic_write_reg_flush_pending(vg, addr, val) ==
    IF addr >= GICD_BASE /\ addr < GICD_BASE + GICD_SIZE
          /\ addr - GICD_BASE = GICD_CTLR
    THEN [vg EXCEPT !.gicd_ctlr = val % 4, !.pending_irqs = EmptyBitmap]
    ELSE vg

\* vgic_write_reg that takes every offset of the window for gicd_ctlr
vgic_write_reg_any_offset(vg, addr, val) ==
    IF addr >= GICD_BASE /\ addr < GICD_BASE + GICD_SIZE
    THEN [vg EXCEPT !.gicd_ctlr = val % 4]
    ELSE vg

\* vgic_write_reg that stores the whole value in gicd_ctlr
vgic_write_reg_unmasked(vg, addr, val) ==
    IF addr >= GICD_BASE /\ addr < GICD_BASE + GICD_SIZE
          /\ addr - GICD_BASE = GICD_CTLR
    THEN [vg EXCEPT !.gicd_ctlr = val]
    ELSE vg

\* vgic_write_reg
vgic_write_reg(vg, addr, val) ==
    IF addr >= GICD_BASE /\ addr < GICD_BASE + GICD_SIZE
          /\ addr - GICD_BASE = GICD_CTLR
    THEN [vg EXCEPT !.gicd_ctlr = val % 4]
    ELSE vg

\* Guest acknowledge of virq: clears pending, sets active
guest_ack(vg, virq) ==
    [vg EXCEPT !.pending_irqs = clear_bit(virq, @),
               !.active_irqs = set_bit(virq, @)]

\* What guest acknowledge returns when nothing is pending
NoInterrupt == NA

(* ------------------------------ arm64-irq.c ---------------------------- *)

\* irq_init, lines 56-61: the descriptor of a low interrupt. affinity is a
\* pointer, and every descriptor is given the address of cpu_online_mask.
irq_desc(i) ==
    [irq |-> i, is_gic_sgi |-> (i < NR_SGIS), affinity |-> "cpu_online_mask",
     gic_irq_type |-> 0]

\* irq_init, lines 55-63: descriptors for 0..31, less those whose xzalloc failed
irq_init_descs(failed) ==
    [i \in (0 .. (NR_LOW_IRQS - 1)) \ failed |-> irq_desc(i)]

\* irq_init, lines 44-49 and 66: the driver calls made on CPU cpu. The loop
\* runs once per present CPU and passes smp_processor_id() each time.
irq_init_calls(cpu, present) ==
    <<  <<"gicv3_dist_init">> >>
    \o [k \in 1 .. Cardinality(present) |-> <<"gicv3_rdist_cpu_init", cpu>>]
    \o << <<"gicv3_cpuif_enable">> >>

\* radix_tree_lookup(&irq_descs, irq) != NULL
HasDesc(irq) == irq \in DOMAIN irq_descs

\* The NULL descriptor pointer
NullDesc == [irq |-> NA, is_gic_sgi |-> FALSE, affinity |-> "none", gic_irq_type |-> 0]

\* A lookup that hands out a fresh descriptor for an interrupt that has none
radix_tree_lookup_or_new(irq) ==
    IF irq \in DOMAIN irq_descs THEN irq_descs[irq] ELSE irq_desc(irq)

\* radix_tree_lookup(&irq_descs, irq), line 78
radix_tree_lookup(irq) ==
    IF irq \in DOMAIN irq_descs THEN irq_descs[irq] ELSE NullDesc

\* The set bits of a 4-bit value
Bits4(n) == {b \in 0 .. 3 : (n \div (2 ^ b)) % 2 = 1}

\* irq_route_to_guest, lines 85-87: the value written to ICC_SGI1R_EL1, as the
\* set of its set bit positions:
\*   (1ULL << 40) | (irq & 0xf) << 24 | (1ULL << (target_cpu + 16))
sgi_reg(irq, target_cpu) ==
    {40} \cup {b + 24 : b \in Bits4(irq % 16)} \cup {target_cpu + 16}

\* The fields of the directive as lines 86-87 lay them out: the 4-bit SGI id
\* from bit 24, and the target list with the bit of CPU c at position c + 16.
SgiIdField(reg) ==
    (IF 24 \in reg THEN 1 ELSE 0) + (IF 25 \in reg THEN 2 ELSE 0)
    + (IF 26 \in reg THEN 4 ELSE 0) + (IF 27 \in reg THEN 8 ELSE 0)
SgiTargetList(reg, cpus) == {c \in cpus : (c + 16) \in reg}

\* The routing write with every interrupt sent through the distributor
irq_route_calls_dist_only(irq, target_cpu, type) ==
    << <<"gicv3_dist_route_spi", irq, target_cpu, type>> >>

\* irq_route_to_guest, lines 94-104: the routing write of a PPI or SPI
irq_route_calls(irq, target_cpu, type) ==
    IF irq < NR_LOW_IRQS
    THEN << <<"gicv3_rdist_route_ppi", target_cpu, irq, type>> >>
    ELSE << <<"gicv3_dist_route_spi", irq, target_cpu, type>> >>

\* cpumask_set_cpu(cpu, mask): sets one more bit in the mask
cpumask_set_cpu(cpu, mask) == mask \cup {cpu}

\* The affinity read back through desc->affinity
Affinity(desc) == IF desc.affinity = "cpu_online_mask" THEN cpu_online_mask ELSE {}

\* bind_irq_to_guest, lines 122-126: the enable call, on the calling CPU for a PPI
bind_irq_calls(irq, cur_cpu) ==
    IF irq >= NR_LOW_IRQS THEN << <<"gicv3_dist_enable_spi", irq>> >>
    ELSE IF irq >= NR_SGIS THEN << <<"gicv3_rdist_enable_ppi", cur_cpu, irq>> >>
    ELSE <<>>

\* do_IRQ with the end of interrupt issued before the acknowledge
do_IRQ_calls_eoi_first(irq) == << <<"gicv3_eoi_irq", irq>>, <<"gicv3_ack_irq", irq>> >>

\* do_IRQ, lines 144-150: acknowledge, then end of interrupt
do_IRQ_calls(irq) == << <<"gicv3_ack_irq", irq>>, <<"gicv3_eoi_irq", irq>> >>

\* Results of unbind
NotFound == 0 - 2
NotOwner == 0 - 1

(* ------------------------- history bookkeeping ------------------------- *)

\* No route of the interrupt has succeeded yet
NoRoute == <<0, NA>>

\* A route of irq to d->vcpu[vcpu_id] returned 0
RecordRoute(d, irq, vcpu_id) ==
    IF irq \in DOMAIN routed THEN [routed EXCEPT ![irq] = <<d, vcpu_id>>] ELSE routed

\* inject from Inactive starts a cycle; acknowledge and eoi advance it; any
\* other order, or a re-assertion in between, abandons it.
CycleInject(d, virq) ==
    IF virq \in Irqs
    THEN [cycle EXCEPT ![d][virq] =
            IF virq \notin PendingSet(d) /\ virq \notin ActiveSet(d) THEN 1 ELSE 0]
    ELSE cycle
CycleAck(d, virq) ==
    [cycle EXCEPT ![d][virq] = IF @ = 1 THEN 2 ELSE 0]
CycleEoi(d, virq) ==
    IF virq \in Irqs
    THEN [cycle EXCEPT ![d][virq] = IF @ = 2 THEN 3 ELSE 0]
    ELSE cycle

(* ------------------------------ vgic actions --------------------------- *)

\* vgic_inject_irq(d, virq), run to completion
Inject(d, virq) ==
    /\ vgic' = [vgic EXCEPT ![d] = vgic_inject_irq(@, virq)]
    /\ last' = [NoCall EXCEPT !.op = "vgic_inject_irq", !.d = d, !.irq = virq,
                              !.calls = vgic_inject_calls(d, virq),
                              !.was_pending = InBitmap(virq) /\ virq \in PendingSet(d),
                              !.was_active = InBitmap(virq) /\ virq \in ActiveSet(d),
                              !.prev_owner = IF virq \in DescIrqs THEN owner[virq] ELSE 0]
    /\ asserted' = IF InBitmap(virq)
                   THEN [asserted EXCEPT ![d] = @ \cup {virq}] ELSE asserted
    /\ cycle' = CycleInject(d, virq)
    /\ UNCHANGED <<oob, inj, irqVars, bindVars>>
    /\ UNCHANGED hpetVars

\* Guest acknowledge in domain d
Ack(d) ==
    /\ \/ /\ PendingSet(d) = {}
          /\ last' = [NoCall EXCEPT !.op = "guest_ack", !.d = d,
                                    !.ret = NoInterrupt]
          /\ UNCHANGED <<vgic, asserted, cycle>>
       \/ \E virq \in PendingSet(d) :
          /\ vgic' = [vgic EXCEPT ![d] = guest_ack(@, virq)]
          /\ last' = [NoCall EXCEPT !.op = "guest_ack", !.d = d,
                                    !.irq = virq, !.ret = virq,
                                    !.was_pending = TRUE,
                                    !.was_active = virq \in ActiveSet(d)]
          /\ asserted' = [asserted EXCEPT ![d] = @ \ {virq}]
          /\ cycle' = CycleAck(d, virq)
    /\ UNCHANGED <<oob, inj, irqVars, bindVars>>
    /\ UNCHANGED hpetVars

\* vgic_eoi_irq(v, virq) with v = d->vcpu[vcpu]
Eoi(d, vcpu, virq) ==
    /\ \/ /\ InBitmap(virq)
          /\ vgic' = [vgic EXCEPT ![d] = vgic_eoi_irq(@, virq)]
          /\ last' = [NoCall EXCEPT !.op = "vgic_eoi_irq", !.d = d, !.vcpu = vcpu,
                         !.irq = virq,
                         !.calls = vgic_eoi_calls(vgic_eoi_irq(vgic[d], virq), d, vcpu, virq),
                         !.was_pending = virq \in PendingSet(d),
                         !.was_active = virq \in ActiveSet(d)]
          /\ oob' = oob
       \/ \* No range check: the bit operations index past the arrays. The
          \* write lands outside active_irqs and what test_bit reads is not
          \* the pending bitmap, so the delivery may or may not happen.
          /\ ~InBitmap(virq)
          /\ vgic' = vgic
          /\ oob' = TRUE
          /\ \E redeliver \in BOOLEAN :
               last' = [NoCall EXCEPT !.op = "vgic_eoi_irq", !.d = d, !.vcpu = vcpu,
                          !.irq = virq,
                          !.calls = IF redeliver THEN <<Deliver(d, vcpu, virq)>> ELSE <<>>]
    /\ cycle' = CycleEoi(d, virq)
    /\ UNCHANGED <<inj, irqVars, bindVars, asserted>>
    /\ UNCHANGED hpetVars

\* vgic_read_reg(v, addr) with v->domain = d
ReadReg(d, addr) ==
    /\ last' = [NoCall EXCEPT !.op = "vgic_read_reg", !.d = d,
                              !.addr = addr, !.ret = vgic_read_reg(vgic[d], addr)]
    /\ UNCHANGED <<vgicVars, inj, irqVars, histVars>>
    /\ UNCHANGED hpetVars

\* vgic_write_reg(v, addr, val) with v->domain = d
WriteReg(d, addr, val) ==
    /\ vgic' = [vgic EXCEPT ![d] = vgic_write_reg(@, addr, val)]
    /\ last' = [NoCall EXCEPT !.op = "vgic_write_reg", !.d = d,
                              !.addr = addr, !.val = val]
    /\ UNCHANGED <<oob, inj, irqVars, histVars>>
    /\ UNCHANGED hpetVars

\* Guest addresses and values register accesses are made with.
RegAddrs == {GICD_BASE + GICD_CTLR, GICD_BASE + GICD_TYPER, GICD_BASE + 8, GICD_BASE + 256,
             GICD_BASE + 384, GICD_BASE + 1024, GICD_BASE - 4, GICD_BASE + GICD_SIZE}
RegVals == {0, 1, 3, 4, 2147483647}

Init ==
    /\ vgic = [d \in Domains |-> vgic_v3_init]
    /\ oob = FALSE
    /\ inj = [t \in Injectors |-> [pc |-> "idle", d |-> NA, virq |-> NA,
                                     was_pending |-> FALSE]]
    /\ irq_descs = <<>>
    /\ cpu_online_mask = {0}
    /\ irq_state = "boot"
    /\ last = NoCall
    /\ owner = [i \in DescIrqs |-> 0]
    /\ destroyed = {}
    /\ bind_tried = {}
    /\ routed = [i \in DescIrqs |-> NoRoute]
    /\ asserted = [d \in Domains |-> {}]
    /\ cycle = [d \in Domains |-> [i \in Irqs |-> 0]]
    /\ hpet_enabled = FALSE
    /\ timer_freq = 0
    /\ cntp_ctl = 0
    /\ cntp_tval = 0

VgicNext ==
    \/ \E d \in VgicDomains, virq \in Irqs \cup BadIrqs : Inject(d, virq)
    \/ \E d \in VgicDomains : Ack(d)
    \/ \E d \in VgicDomains, vcpu \in Vcpus, virq \in Irqs \cup BadIrqs : Eoi(d, vcpu, virq)
    \/ \E d \in VgicDomains, addr \in RegAddrs : ReadReg(d, addr)
    \/ \E d \in VgicDomains, addr \in RegAddrs, val \in RegVals : WriteReg(d, addr, val)

SpecVgic == Init /\ [][VgicNext]_vars

(* ------------------------------ irq actions ---------------------------- *)

\* irq_init() on CPU cpu of a machine whose present CPUs are `present`;
\* `failed` are the low interrupts whose descriptor allocation failed.
IrqInit(cpu, present, failed) ==
    /\ irq_state = "boot"
    /\ irq_state' = "ready"
    /\ irq_descs' = irq_init_descs(failed)
    /\ last' = [NoCall EXCEPT !.op = "irq_init", !.cpu = cpu,
                              !.calls = irq_init_calls(cpu, present)]
    /\ UNCHANGED <<vgicVars, inj, cpu_online_mask, histVars>>
    /\ UNCHANGED hpetVars

\* irq_init() when gic_v3_init() returns NULL: panic
IrqInitPanic(cpu) ==
    /\ irq_state = "boot"
    /\ irq_state' = "panic"
    /\ last' = [NoCall EXCEPT !.op = "irq_init", !.cpu = cpu, !.ret = NA]
    /\ UNCHANGED <<vgicVars, inj, irq_descs, cpu_online_mask, histVars>>
    /\ UNCHANGED hpetVars

\* irq_route_to_guest(d, irq, vcpu_id) while d->vcpu[vcpu_id]->processor is target_cpu
RouteToGuest(d, irq, vcpu_id, target_cpu) ==
    /\ irq_state # "panic"
    /\ IF radix_tree_lookup(irq) = NullDesc
       THEN /\ last' = [NoCall EXCEPT !.op = "irq_route_to_guest", !.d = d, !.irq = irq,
                                      !.vcpu = vcpu_id, !.cpu = target_cpu,
                                      !.ret = 0 - EINVAL]
            /\ cpu_online_mask' = cpu_online_mask
            /\ routed' = routed
       ELSE IF radix_tree_lookup(irq).is_gic_sgi
       THEN /\ last' = [NoCall EXCEPT !.op = "irq_route_to_guest", !.d = d, !.irq = irq,
                                      !.vcpu = vcpu_id, !.cpu = target_cpu,
                                      !.sgi = sgi_reg(irq, target_cpu)]
            /\ cpu_online_mask' = cpu_online_mask
            /\ routed' = RecordRoute(d, irq, vcpu_id)
       ELSE /\ last' = [NoCall EXCEPT !.op = "irq_route_to_guest", !.d = d, !.irq = irq,
                                      !.vcpu = vcpu_id, !.cpu = target_cpu,
                                      !.calls = irq_route_calls(irq, target_cpu,
                                                    radix_tree_lookup(irq).gic_irq_type)]
            /\ cpu_online_mask' = cpumask_set_cpu(target_cpu, Affinity(radix_tree_lookup(irq)))
            /\ routed' = RecordRoute(d, irq, vcpu_id)
    /\ UNCHANGED <<vgicVars, inj, irq_descs, irq_state, owner, destroyed, bind_tried,
                   asserted, cycle>>
    /\ UNCHANGED hpetVars

\* bind_irq_to_guest(irq, d) called on CPU cur_cpu
BindIrqToGuest(irq, d, cur_cpu) ==
    /\ irq_state # "panic"
    /\ IF ~HasDesc(irq)
       THEN /\ last' = [NoCall EXCEPT !.op = "bind_irq_to_guest", !.d = d, !.irq = irq,
                                      !.cpu = cur_cpu, !.ret = 0 - EINVAL,
                                      !.prev_owner = owner[irq]]
            /\ UNCHANGED <<owner, destroyed>>
       ELSE /\ last' = [NoCall EXCEPT !.op = "bind_irq_to_guest", !.d = d, !.irq = irq,
                                      !.cpu = cur_cpu,
                                      !.calls = bind_irq_calls(irq, cur_cpu),
                                      !.prev_owner = owner[irq]]
            /\ owner' = IF owner[irq] = 0 THEN [owner EXCEPT ![irq] = d] ELSE owner
            /\ destroyed' = destroyed \ {<<d, irq>>}
    /\ bind_tried' = bind_tried \cup {irq}
    /\ UNCHANGED <<vgicVars, inj, irqVars, routed, asserted, cycle>>
    /\ UNCHANGED hpetVars

\* do_IRQ(irq)
DoIRQ(irq) ==
    /\ irq_state # "panic"
    /\ last' = [NoCall EXCEPT !.op = "do_IRQ", !.irq = irq,
                              !.calls = IF HasDesc(irq) THEN do_IRQ_calls(irq) ELSE <<>>]
    /\ UNCHANGED <<vgicVars, inj, irqVars, histVars>>
    /\ UNCHANGED hpetVars

\* unbind(irq, d): the teardown the design describes. It fails NotFound on an
\* unbound interrupt and NotOwner for another domain's binding; otherwise
\* it clears the pending and active state of (d, irq), destroys the
\* descriptor of a shared interrupt and drops the binding.
Unbind(irq, d) ==
    /\ irq_state # "panic"
    /\ IF owner[irq] = 0 \/ owner[irq] # d
       THEN /\ last' = [NoCall EXCEPT !.op = "unbind", !.d = d, !.irq = irq,
                                      !.ret = IF owner[irq] = 0 THEN NotFound ELSE NotOwner,
                                      !.prev_owner = owner[irq]]
            /\ UNCHANGED <<vgic, irq_descs, histVars>>
       ELSE /\ last' = [NoCall EXCEPT !.op = "unbind", !.d = d, !.irq = irq,
                                      !.prev_owner = owner[irq],
                                      !.was_pending = irq \in PendingSet(d),
                                      !.was_active = irq \in ActiveSet(d)]
            /\ vgic' = [vgic EXCEPT ![d].pending_irqs = clear_bit(irq, @),
                                    ![d].active_irqs = clear_bit(irq, @)]
            /\ irq_descs' = IF irq >= NR_LOW_IRQS
                            THEN [i \in (DOMAIN irq_descs) \ {irq} |-> irq_descs[i]]
                            ELSE irq_descs
            /\ owner' = [owner EXCEPT ![irq] = 0]
            /\ destroyed' = destroyed \cup {<<d, irq>>}
            /\ asserted' = [asserted EXCEPT ![d] = @ \ {irq}]
            /\ cycle' = IF irq \in Irqs THEN [cycle EXCEPT ![d][irq] = 0] ELSE cycle
    /\ UNCHANGED <<oob, inj, cpu_online_mask, irq_state, bind_tried, routed>>
    /\ UNCHANGED hpetVars

\* At most one descriptor allocation of irq_init fails.
AllocFailures == {{}} \cup {{i} : i \in {j \in DescIrqs : j < NR_LOW_IRQS}}

IrqNext ==
    \/ \E cpu \in CPUs, failed \in AllocFailures : IrqInit(cpu, CPUs, failed)
    \/ \E cpu \in CPUs : IrqInitPanic(cpu)
    \* irq_route_to_guest reads d only to reach d->vcpu[vcpu_id]
    \/ \E d \in VgicDomains, irq \in DescIrqs \cup BadIrqs, vcpu_id \in Vcpus, cpu \in CPUs :
          RouteToGuest(d, irq, vcpu_id, cpu)
    \/ \E irq \in DescIrqs, d \in Domains, cpu \in CPUs : BindIrqToGuest(irq, d, cpu)
    \/ \E irq \in DescIrqs \cup BadIrqs : DoIRQ(irq)

SpecIrq == Init /\ [][IrqNext]_vars

\* Routing of every software-generated interrupt on the larger machine.
SgiNext ==
    \/ \E cpu \in SgiCPUs : IrqInit(cpu, SgiCPUs, {})
    \/ \E d \in VgicDomains, irq \in 0 .. (NR_SGIS - 1), vcpu_id \in Vcpus, cpu \in SgiCPUs :
          RouteToGuest(d, irq, vcpu_id, cpu)

SpecSgi == Init /\ [][SgiNext]_vars

\* Binding, injection and teardown together.
TeardownNext ==
    \/ \E cpu \in CPUs : IrqInit(cpu, CPUs, {})
    \/ \E irq \in Irqs, d \in Domains, cpu \in CPUs : BindIrqToGuest(irq, d, cpu)
    \/ \E irq \in Irqs, d \in Domains : Unbind(irq, d)
    \/ \E d \in VgicDomains, virq \in Irqs : Inject(d, virq)
    \/ \E d \in VgicDomains, irq \in Irqs, vcpu_id \in Vcpus, cpu \in CPUs :
          RouteToGuest(d, irq, vcpu_id, cpu)

SpecTeardown == Init /\ [][TeardownNext]_vars

\* Routing followed by injection.
RouteInjectNext ==
    \/ \E cpu \in CPUs : IrqInit(cpu, CPUs, {})
    \/ \E d \in Domains, irq \in DescIrqs, vcpu_id \in Vcpus, cpu \in CPUs :
          RouteToGuest(d, irq, vcpu_id, cpu)
    \/ \E d \in Domains, virq \in DescIrqs : Inject(d, virq)

SpecRouteInject == Init /\ [][RouteInjectNext]_vars

(* ------------------- concurrent injection (host contexts) -------------- *)

\* Context t enters vgic_inject_irq(d, virq): the range check, then the
\* atomic set_bit. An out-of-range virq returns at once.
InjectSetBit(t, d, virq) ==
    /\ inj[t].pc = "idle"
    /\ vgic' = [vgic EXCEPT ![d] = vgic_inject_irq(@, virq)]
    /\ IF virq >= VGIC_NR_IRQS
       THEN /\ inj' = inj
            /\ last' = [NoCall EXCEPT !.op = "vgic_inject_irq", !.d = d, !.irq = virq]
            /\ UNCHANGED <<asserted, cycle>>
       ELSE /\ inj' = [inj EXCEPT ![t] = [pc |-> "deliver", d |-> d, virq |-> virq,
                                          was_pending |-> virq \in PendingSet(d)]]
            /\ last' = last
            /\ asserted' = [asserted EXCEPT ![d] = @ \cup {virq}]
            /\ cycle' = CycleInject(d, virq)
    /\ UNCHANGED <<oob, irqVars, bindVars>>
    /\ UNCHANGED hpetVars

\* Context t makes the delivery call of its vgic_inject_irq and returns.
InjectDeliver(t) ==
    /\ inj[t].pc = "deliver"
    /\ last' = [NoCall EXCEPT !.op = "vgic_inject_irq", !.d = inj[t].d,
                              !.irq = inj[t].virq,
                              !.calls = vgic_inject_calls(inj[t].d, inj[t].virq),
                              !.was_pending = inj[t].was_pending]
    /\ inj' = [inj EXCEPT ![t] = [pc |-> "idle", d |-> NA, virq |-> NA,
                                  was_pending |-> FALSE]]
    /\ UNCHANGED <<vgicVars, irqVars, histVars>>
    /\ UNCHANGED hpetVars

ConcNext ==
    \/ \E t \in Injectors, d \in VgicDomains, virq \in Irqs \cup BadIrqs :
          InjectSetBit(t, d, virq)
    \/ \E t \in Injectors : InjectDeliver(t)
    \/ \E d \in VgicDomains : Ack(d)
    \/ \E d \in VgicDomains, vcpu \in Vcpus, virq \in Irqs \cup BadIrqs : Eoi(d, vcpu, virq)

SpecConc == Init /\ [][ConcNext]_vars

(* ------------------------------- arm-hpet.c ---------------------------- *)

\* reg & mask, reg | mask and reg & ~mask for a one-bit mask
TestMask(reg, mask) == (reg \div mask) % 2 = 1
OrMask(reg, mask) == IF TestMask(reg, mask) THEN reg ELSE reg + mask
ClearMask(reg, mask) == IF TestMask(reg, mask) THEN reg - mask ELSE reg

\* Counter frequencies CNTFRQ_EL0 can read as, and the delays asked for
HpetFreqs == {0, 250000000, 500000000}
Deltas == 0 .. (NumDeltas - 1)

\* hpet_init, lines 60-63: the control value written back
hpet_init_ctl(ctl) == ClearMask(OrMask(ctl, CNTP_CTL_ENABLE), CNTP_CTL_IMASK)

\* hpet_set_timer, line 82: nanoseconds to timer ticks
hpet_ticks(delta_ns, freq) == (delta_ns * freq) \div NS_PER_SEC

\* hpet_init() while CNTFRQ_EL0 reads freq and gic_route_irq_to_xen
\* succeeds (route_ok) or fails
HpetInit(freq, route_ok) ==
    /\ timer_freq' = freq
    /\ IF freq = 0
       THEN /\ last' = [NoCall EXCEPT !.op = "hpet_init", !.ret = 0 - ENODEV]
            /\ UNCHANGED <<hpet_enabled, cntp_ctl>>
       ELSE /\ cntp_ctl' = hpet_init_ctl(cntp_ctl)
            /\ last' = [NoCall EXCEPT !.op = "hpet_init",
                           !.ret = IF route_ok THEN 0 ELSE 0 - ENODEV,
                           !.calls = << <<"gic_route_irq_to_xen", timer_irq>> >>]
            /\ hpet_enabled' = IF route_ok THEN TRUE ELSE hpet_enabled
    /\ UNCHANGED <<vgicVars, inj, irqVars, histVars, cntp_tval>>

\* hpet_set_timer(delta_ns). Writing a non-zero countdown to the timer value
\* register ends the timer condition, so ISTATUS reads 0 afterwards.
HpetSetTimer(delta_ns) ==
    /\ last' = [NoCall EXCEPT !.op = "hpet_set_timer", !.val = delta_ns]
    /\ IF ~hpet_enabled
       THEN UNCHANGED <<cntp_ctl, cntp_tval>>
       ELSE /\ cntp_tval' = hpet_ticks(delta_ns, timer_freq)
            /\ cntp_ctl' =
                 LET armed == IF hpet_ticks(delta_ns, timer_freq) > 0
                              THEN ClearMask(cntp_ctl, CNTP_CTL_ISTATUS)
                              ELSE cntp_ctl
                 IN IF ~TestMask(armed, CNTP_CTL_ENABLE)
                    THEN OrMask(armed, CNTP_CTL_ENABLE)
                    ELSE armed
    /\ UNCHANGED <<vgicVars, inj, irqVars, histVars, hpet_enabled, timer_freq>>

\* hpet_timer_handler(irq, dev_id)
HpetTimerHandler(irq) ==
    /\ cntp_ctl' = ClearMask(cntp_ctl, CNTP_CTL_IMASK)
    /\ last' = [NoCall EXCEPT !.op = "hpet_timer_handler", !.irq = irq,
                   !.calls = << <<"raise_softirq", "TIMER_SOFTIRQ">>,
                                <<"gic_eoi_irq", irq>> >>]
    /\ UNCHANGED <<vgicVars, inj, irqVars, histVars, hpet_enabled, timer_freq, cntp_tval>>

\* hpet_shutdown()
HpetShutdown ==
    /\ last' = [NoCall EXCEPT !.op = "hpet_shutdown"]
    /\ IF ~hpet_enabled
       THEN UNCHANGED <<hpet_enabled, cntp_ctl>>
       ELSE /\ cntp_ctl' = ClearMask(cntp_ctl, CNTP_CTL_ENABLE)
            /\ hpet_enabled' = FALSE
    /\ UNCHANGED <<vgicVars, inj, irqVars, histVars, timer_freq, cntp_tval>>

\* The hardware: an enabled timer counts down to zero and raises ISTATUS.
TimerExpire ==
    /\ TestMask(cntp_ctl, CNTP_CTL_ENABLE)
    /\ ~TestMask(cntp_ctl, CNTP_CTL_ISTATUS)
    /\ cntp_ctl' = OrMask(cntp_ctl, CNTP_CTL_ISTATUS)
    /\ cntp_tval' = 0
    /\ last' = [NoCall EXCEPT !.op = "timer_expire"]
    /\ UNCHANGED <<vgicVars, inj, irqVars, histVars, hpet_enabled, timer_freq>>

HpetNext ==
    \/ \E freq \in HpetFreqs, route_ok \in BOOLEAN : HpetInit(freq, route_ok)
    \/ \E delta_ns \in Deltas : HpetSetTimer(delta_ns)
    \/ HpetTimerHandler(timer_irq)
    \/ HpetShutdown
    \/ TimerExpire

SpecHpet == Init /\ [][HpetNext]_vars

(* ------------------------------ properties ----------------------------- *)

\* struct vgic_v3: the distributor enable bits and the per-interrupt enable bit
GlobalEnable(vg) == vg.gicd_ctlr % 4 # 0
IrqEnabled(vg, virq) ==
    (Word(vg.gicd_isenabler, virq \div 32) \div (2 ^ (virq % 32))) % 2 = 1

Inactive(d, virq) ==
    /\ ~test_bit(virq, vgic[d].pending_irqs)
    /\ ~test_bit(virq, vgic[d].active_irqs)

\* C1: for every virq that was Inactive, inject(virq), then guest acknowledge,
\* then eoi(virq), with no re-assertion in between, leaves virq Inactive:
\* its pending bit and its active bit are both clear.
C1_InjectAckEoiInactive ==
    \A d \in Domains, virq \in Irqs :
        cycle[d][virq] = 3 => Inactive(d, virq)

\* C1 witness: an inject;acknowledge;eoi cycle has just completed.
C1_Witness ==
    /\ last.op = "vgic_eoi_irq"
    /\ last.irq \in Irqs
    /\ cycle[last.d][last.irq] = 3
    /\ last.was_active

\* C2: when virq is Active and its pending bit has been set again, eoi(virq)
\* clears the active bit, leaves the pending bit set (Pending, not Inactive)
\* and calls the delivery step for the vCPU again.
C2_EoiRedelivers ==
    (last.op = "vgic_eoi_irq" /\ InBitmap(last.irq)
        /\ last.was_active /\ last.was_pending)
    => /\ ~test_bit(last.irq, vgic[last.d].active_irqs)
       /\ test_bit(last.irq, vgic[last.d].pending_irqs)
       /\ last.calls = <<Deliver(last.d, last.vcpu, last.irq)>>

\* C2 witness: an eoi was made on an interrupt that was Active and pending.
C2_Witness ==
    /\ last.op = "vgic_eoi_irq"
    /\ InBitmap(last.irq)
    /\ last.was_active
    /\ last.was_pending
    /\ last.vcpu # 0

\* C3: concurrent inject(virq) calls coalesce. The pending bitmap is exactly
\* the set of interrupts injected and not acknowledged since, however the
\* calls interleave (two calls leave what one call leaves), and the set_bit
\* step of an inject leaves the active bitmap alone, adds only virq to the
\* pending bitmap, and changes no bitmap at all when virq is already pending.
C3_Coalescing ==
    /\ [](\A d \in Domains : PendingSet(d) = asserted[d])
    /\ [][\A t \in Injectors :
            (inj[t].pc = "idle" /\ inj'[t].pc = "deliver") =>
                /\ vgic'[inj'[t].d].active_irqs = vgic[inj'[t].d].active_irqs
                /\ BitmapSet(vgic'[inj'[t].d].pending_irqs)
                      = PendingSet(inj'[t].d) \cup {inj'[t].virq}
                /\ (test_bit(inj'[t].virq, vgic[inj'[t].d].pending_irqs)
                      => vgic' = vgic)]_vars

\* C3 witness: two contexts are inside inject of the same interrupt of the
\* same domain, both past set_bit, and one of them found the bit already set.
C3_Witness ==
    \E t1, t2 \in Injectors :
        /\ t1 # t2
        /\ inj[t1].pc = "deliver" /\ inj[t2].pc = "deliver"
        /\ inj[t1].d = inj[t2].d /\ inj[t1].virq = inj[t2].virq
        /\ inj[t2].was_pending
        /\ PendingSet(inj[t1].d) = {inj[t1].virq}

\* C8: a virtual interrupt other than a software-generated one is handed to
\* the delivery step, by inject or by the eoi re-delivery, only if the
\* distributor global-enable bit and its own enable bit are both set.
C8_DeliveryGated ==
    \A i \in 1 .. Len(last.calls) :
        (last.calls[i][1] = "vgic_vcpu_inject_irq" /\ last.calls[i][4] >= NR_SGIS)
        => /\ GlobalEnable(vgic[last.calls[i][2]])
           /\ IrqEnabled(vgic[last.calls[i][2]], last.calls[i][4])

\* C4: after an interrupt is bound to a domain and injected, unbinding it
\* clears the pending and active state of that (domain, irq) pair, and every
\* later inject or route on the destroyed binding fails with NotFound and
\* leaves the pending/active bitmaps and the routing untouched.
C4_TeardownSafety ==
    /\ (last.op = "unbind" /\ last.ret = 0) => Inactive(last.d, last.irq)
    /\ (last.op \in {"vgic_inject_irq", "irq_route_to_guest"}
            /\ <<last.d, last.irq>> \in destroyed)
       => /\ last.ret = NotFound
          /\ last.calls = <<>>
          /\ last.sgi = {}
          /\ Inactive(last.d, last.irq)

SharedIrq(irq) == irq >= NR_LOW_IRQS /\ irq < VGIC_NR_IRQS

\* C5: routing a shared interrupt (32 <= irq < 1024) that has been bound is
\* last-write-wins with a single target: the route succeeds and the affinity
\* read back from the descriptor is exactly {target CPU of that route}.
C5_SharedRouteReadsBack ==
    (last.op = "irq_route_to_guest" /\ irq_state = "ready"
        /\ SharedIrq(last.irq) /\ last.irq \in bind_tried)
    => /\ last.ret = 0
       /\ HasDesc(last.irq)
       /\ Affinity(irq_descs[last.irq]) = {last.cpu}

\* C6: the directive produced by routing SGI s to CPU c carries s in its id
\* field and its target list selects exactly CPU c and no other CPU.
C6_SgiSingleTarget ==
    (last.op = "irq_route_to_guest" /\ last.irq >= 0 /\ last.irq < NR_SGIS
        /\ last.ret = 0)
    => /\ SgiIdField(last.sgi) = last.irq
       /\ SgiTargetList(last.sgi, SgiCPUs) = {last.cpu}

PrivateIrq(irq) == irq >= NR_SGIS /\ irq < NR_LOW_IRQS

\* C7: routing a private interrupt (16 <= irq < 32) to CPU c makes its
\* routing write through CPU c's own redistributor only: no distributor
\* write, no SGI directive, no write addressed to another CPU.
C7_PpiViaOwnRedistributor ==
    (last.op = "irq_route_to_guest" /\ PrivateIrq(last.irq))
    => /\ last.sgi = {}
       /\ \A i \in 1 .. Len(last.calls) :
             /\ last.calls[i][1] = "gicv3_rdist_route_ppi"
             /\ last.calls[i][2] = last.cpu
             /\ last.calls[i][3] = last.irq
       /\ (last.ret = 0 => Len(last.calls) = 1)

\* C7 witness: a private interrupt was routed, successfully, to a CPU other
\* than CPU 0.
C7_Witness ==
    /\ last.op = "irq_route_to_guest"
    /\ PrivateIrq(last.irq)
    /\ last.ret = 0
    /\ last.cpu # 0
    /\ Len(last.calls) = 1

\* C9: bind on an interrupt that is bound to a different domain fails
\* (AlreadyBound), enables nothing in hardware and leaves the binding as it was.
C9_BindOwnership ==
    (last.op = "bind_irq_to_guest" /\ last.prev_owner # 0 /\ last.prev_owner # last.d)
    => /\ last.ret # 0
       /\ last.calls = <<>>
       /\ owner[last.irq] = last.prev_owner

\* C10: bind of an unbound shared interrupt (32 <= irq < 1024) succeeds and
\* creates its descriptor, so a following lookup or route finds it.
C10_BindCreatesSharedDesc ==
    (last.op = "bind_irq_to_guest" /\ irq_state = "ready"
        /\ SharedIrq(last.irq) /\ last.prev_owner = 0)
    => /\ last.ret = 0
       /\ HasDesc(last.irq)

\* C11: inject(d, virq) sets the pending bit and notifies the vCPU that the
\* most recent successful route of virq in d assigned as its target, and no
\* other vCPU of the domain.
C11_InjectFollowsRoute ==
    (last.op = "vgic_inject_irq" /\ last.irq \in DescIrqs
        /\ routed[last.irq][1] = last.d)
    => /\ last.irq \in PendingSet(last.d)
       /\ last.calls = <<Deliver(last.d, routed[last.irq][2], last.irq)>>

\* C12: inject with virq >= 1024 is rejected: the call sets no pending bit,
\* changes no active bit, makes no vCPU delivery call, and the controller
\* state after the call is the state before it.
C12_InjectOutOfRangeRejected ==
    [][(last'.op = "vgic_inject_irq" /\ last'.irq >= VGIC_NR_IRQS)
        => /\ vgic' = vgic
           /\ oob' = oob
           /\ last'.calls = <<>>]_vars

\* C12 witness: an out-of-range inject has returned in a domain that holds
\* pending and active interrupts.
C12_Witness ==
    /\ last.op = "vgic_inject_irq"
    /\ last.irq >= VGIC_NR_IRQS
    /\ PendingSet(last.d) # {}
    /\ ActiveSet(last.d) # {}

\* C13: eoi with virq outside [0, 1024) is rejected: it touches nothing
\* outside the 1024-bit pending and active sets and makes no delivery call.
C13_EoiOutOfRangeRejected ==
    (last.op = "vgic_eoi_irq" /\ last.irq >= VGIC_NR_IRQS)
    => /\ ~oob
       /\ last.calls = <<>>

\* Bits 1:0 of a value, bit by bit
LowTwoBits(v) == (v % 2) + 2 * ((v \div 2) % 2)

\* C14: a guest write of v to the global-control register followed by a read
\* of the same register returns v & 0x3, and in every reachable state all
\* bits of global-control above bit 1 are 0.
C14_GlobalControlMasking ==
    /\ [](\A d \in Domains : vgic[d].gicd_ctlr \in 0 .. 3)
    /\ [][(/\ last.op = "vgic_write_reg"
            /\ last.addr = GICD_BASE + GICD_CTLR
            /\ last'.op = "vgic_read_reg"
            /\ last'.addr = GICD_BASE + GICD_CTLR
            /\ last'.d = last.d)
           => last'.ret = LowTwoBits(last.val)]_vars

\* C14 witness: global-control reads back 3 after a write that also had
\* higher bits set.
C14_Witness ==
    /\ last.op = "vgic_read_reg"
    /\ last.addr = GICD_BASE + GICD_CTLR
    /\ last.ret = 3
    /\ \A d \in VgicDomains : vgic[d].gicd_ctlr = 3

\* The register map of the design: enable-set[n] at offset 0x100 + 4n and
\* enable-clear[n] at offset 0x180 + 4n of the distributor window.
EnableSetAddr(n) == GICD_BASE + 256 + 4 * n
EnableClearAddr(n) == GICD_BASE + 384 + 4 * n
EnableRegs == 0 .. 31

\* Bit b of a register value (the values written are below 2^31)
ValBit(v, b) == (v \div (2 ^ b)) % 2 = 1

\* C15: a guest write of v to enable-set[n] sets the enable bits of
\* interrupts 32n .. 32n+31 selected by v, a write of v to enable-clear[n]
\* clears the selected enable bits, and a read of enable-set[n] returns the
\* current enable bits of that range.
C15_EnableRegisters ==
    \A n \in EnableRegs :
        /\ (last.op = "vgic_write_reg" /\ last.addr = EnableSetAddr(n))
           => \A b \in 0 .. 30 :
                ValBit(last.val, b) => IrqEnabled(vgic[last.d], 32 * n + b)
        /\ (last.op = "vgic_write_reg" /\ last.addr = EnableClearAddr(n))
           => \A b \in 0 .. 30 :
                ValBit(last.val, b) => ~IrqEnabled(vgic[last.d], 32 * n + b)
        /\ (last.op = "vgic_read_reg" /\ last.addr = EnableSetAddr(n))
           => last.ret = Word(vgic[last.d].gicd_isenabler, n)

\* vgic_read_reg, lines 84-89: the addresses the switch has a case for
RecognizedAddr(addr) ==
    /\ addr >= GICD_BASE /\ addr < GICD_BASE + GICD_SIZE
    /\ addr - GICD_BASE \in {GICD_CTLR, GICD_TYPER}

\* C16: a guest read of an address that is not a recognized register, inside
\* or outside the distributor window, returns 0, and a guest write to such an
\* address leaves every field of the controller shadow state unchanged.
C16_UnrecognizedPermissive ==
    /\ []((last.op = "vgic_read_reg" /\ ~RecognizedAddr(last.addr)) => last.ret = 0)
    /\ [][(last'.op = "vgic_write_reg" /\ ~RecognizedAddr(last'.addr))
           => vgic' = vgic]_vars

\* C16 witness: a write to an unrecognized offset inside the window has
\* returned in a domain whose shadow state is not the initial one.
C16_Witness ==
    /\ last.op = "vgic_write_reg"
    /\ last.addr = GICD_BASE + 8
    /\ last.val = 3
    /\ vgic[last.d].gicd_ctlr = 1
    /\ PendingSet(last.d) # {}

\* C17: for every address and value, a guest register read or write leaves
\* the pending and active bitmaps unchanged and makes no vCPU delivery call;
\* a read changes no controller state at all.
C17_RegisterAccessNoDelivery ==
    [][(last'.op \in {"vgic_read_reg", "vgic_write_reg"})
        => /\ \A d \in Domains :
                /\ vgic'[d].pending_irqs = vgic[d].pending_irqs
                /\ vgic'[d].active_irqs = vgic[d].active_irqs
           /\ oob' = oob
           /\ last'.calls = <<>>
           /\ (last'.op = "vgic_read_reg" => vgic' = vgic)]_vars

\* C17 witness: global-control has just been written in a domain that holds
\* a pending and an active interrupt.
C17_Witness ==
    /\ last.op = "vgic_write_reg"
    /\ last.addr = GICD_BASE + GICD_CTLR
    /\ vgic[last.d].gicd_ctlr = 3
    /\ PendingSet(last.d) # {}
    /\ ActiveSet(last.d) # {}

\* C18: a route call for an interrupt number that has no descriptor returns
\* an error at once, issues no SGI directive and no distributor or
\* redistributor routing write, and changes no descriptor's affinity.
C18_RouteFailureNoEffect ==
    /\ []((last.op = "irq_route_to_guest" /\ last.irq \notin DOMAIN irq_descs)
            => /\ last.ret = 0 - EINVAL
               /\ last.calls = <<>>
               /\ last.sgi = {})
    /\ [][(last'.op = "irq_route_to_guest" /\ last'.irq \notin DOMAIN irq_descs)
            => /\ irq_descs' = irq_descs
               /\ cpu_online_mask' = cpu_online_mask
               /\ \A i \in DOMAIN irq_descs :
                     Affinity(irq_descs[i])' = Affinity(irq_descs[i])]_vars

\* C18 witness: after irq_init and a successful route that widened the
\* affinity mask, a route of an interrupt without a descriptor has failed.
C18_Witness ==
    /\ last.op = "irq_route_to_guest"
    /\ irq_state = "ready"
    /\ ~HasDesc(last.irq)
    /\ last.ret = 0 - EINVAL
    /\ cpu_online_mask = CPUs

\* The CPUs whose redistributor a sequence of driver calls has initialized
RdistInitialized(calls) ==
    {calls[k][2] : k \in {j \in 1 .. Len(calls) : calls[j][1] = "gicv3_rdist_cpu_init"}}

\* C19: after irq_init completes, the redistributor of every CPU in the
\* present set has been initialized, not only that of the CPU that ran it.
C19_InitEveryRedistributor ==
    (last.op = "irq_init" /\ irq_state = "ready")
    => CPUs \subseteq RdistInitialized(last.calls)

\* Positions in a sequence of driver calls of the calls of function f
CallsOf(calls, f) == {k \in 1 .. Len(calls) : calls[k][1] = f}

\* C20: for an interrupt number that has a descriptor, one do_IRQ call
\* issues exactly one physical acknowledge and exactly one physical EOI, both
\* for that interrupt, the acknowledge strictly before the EOI; for a number
\* with no descriptor it issues neither.
C20_AckEoiPairing ==
    last.op = "do_IRQ"
    => IF HasDesc(last.irq)
       THEN /\ Cardinality(CallsOf(last.calls, "gicv3_ack_irq")) = 1
            /\ Cardinality(CallsOf(last.calls, "gicv3_eoi_irq")) = 1
            /\ \A a \in CallsOf(last.calls, "gicv3_ack_irq"),
                  e \in CallsOf(last.calls, "gicv3_eoi_irq") :
                    /\ a < e
                    /\ last.calls[a][2] = last.irq
                    /\ last.calls[e][2] = last.irq
       ELSE /\ CallsOf(last.calls, "gicv3_ack_irq") = {}
            /\ CallsOf(last.calls, "gicv3_eoi_irq") = {}

\* C20 witness: do_IRQ has handled a private interrupt that has a descriptor
\* while another low interrupt has none.
C20_Witness ==
    /\ last.op = "do_IRQ"
    /\ last.irq = 20
    /\ HasDesc(20)
    /\ ~HasDesc(5)
    /\ Len(last.calls) = 2

\* C21: a successful route of a private or shared interrupt changes the
\* affinity of that interrupt's descriptor only: the affinity of every other
\* descriptor and the online-CPU set are the same before and after the call.
C21_AffinityIsolation ==
    [][(last'.op = "irq_route_to_guest" /\ last'.ret = 0 /\ last'.irq >= NR_SGIS)
        => /\ cpu_online_mask' = cpu_online_mask
           /\ \A i \in (DOMAIN irq_descs) \ {last'.irq} :
                 Affinity(irq_descs[i])' = Affinity(irq_descs[i])]_vars

\* C22: in every state reached by hpet_init (succeeding or failing),
\* hpet_set_timer, hpet_timer_handler and hpet_shutdown from a disabled
\* timer, the ENABLE bit of the timer control register is set only if
\* hpet_enabled is true.
C22_TimerEnableConsistency ==
    TestMask(cntp_ctl, CNTP_CTL_ENABLE) => hpet_enabled

====
